---- MODULE Spec2Model ----
(***************************************************************************)
(* Model of the notebook "LT5-LE7 SR Spectral Indices": per-scene cloud     *)
(* masking, collection assembly, annual compositing, NDVI and the export   *)
(* loop.  Earth Engine rasters are modelled as functions from pixels to    *)
(* records [m, v]: m is the pixel's mask (TRUE = valid), v its value.      *)
(* Floating point values are modelled as exact rationals [n, d], d > 0.    *)
(* The scene raster is GridW pixels wide and two pixels high.              *)
(* Strings that the code slices or formats are sequences of characters.    *)
(***************************************************************************)
EXTENDS Integers, Sequences, FiniteSets, TLC

VARIABLES
    raw,        \* SpecScene: the raw scene handed to cloud_mask
    pre,        \* SpecScene: the result of cloud_mask(raw)
    nd,         \* SpecScene: the result of ndvi(pre)
    spc,        \* SpecScene: position: "raw", "masked", "ndvi"
    archive,    \* SpecAssemble: platform -> sequence of raw archive scenes
    coll,       \* SpecAssemble: platform -> collection being filtered / mapped
    applied,    \* SpecAssemble: platform -> set of filters already applied
    merged,     \* SpecAssemble: lt5_le7_collection
    apc,        \* SpecAssemble: position
    lt5_le7_collection,     \* Spec: the merged, preprocessed collection
    max_extent,             \* Spec: JRC max_extent raster (non-zero = surface water)
    cdl_archive,            \* Spec: USDA/NASS/CDL images
    composites,             \* Spec: median composites (list)
    composites_ndvi_first,  \* Spec: maximum NDVI composites (list)
    i,          \* Spec: loop index
    img,        \* Spec: loop body name img
    img_masked, \* Spec: loop body name img_masked
    year,       \* Spec: loop body name year
    task,       \* Spec: loop body name task
    started,    \* Spec: sequence of tasks started (the batch system's queue)
    pc,         \* Spec: position in the workspace cell
    tpc         \* ConcSpec: iteration -> position of that iteration

sceneVars == <<raw, pre, nd, spc>>
asmVars == <<archive, coll, applied, merged, apc>>
expVars == <<lt5_le7_collection, max_extent, cdl_archive, composites,
             composites_ndvi_first, i, img, img_masked, year, task, started,
             pc, tpc>>
vars == <<raw, pre, nd, spc, archive, coll, applied, merged, apc,
          lt5_le7_collection, max_extent, cdl_archive, composites,
          composites_ndvi_first, i, img, img_masked, year, task, started,
          pc, tpc>>

(***************************************************************************)
(* Bounds of the model.                                                    *)
(***************************************************************************)
GridW == 3
MaxArchive == 2
MaxScenes == 2
ConcIterations == 3

(***************************************************************************)
(* Exact rationals.                                                        *)
(***************************************************************************)
RECURSIVE GCD(_, _)
GCD(a, b) == IF b = 0 THEN a ELSE GCD(b, a % b)

\* The rational n / d in lowest terms, d > 0.
Rat(n, d) ==
    LET g == GCD(IF n < 0 THEN -n ELSE n, d)
    IN  [n |-> n \div g, d |-> d \div g]
RLe(a, b) == a.n * b.d <= b.n * a.d
REq(a, b) == a.n * b.d = b.n * a.d
RAdd(a, b) == Rat(a.n * b.d + b.n * a.d, a.d * b.d)
RSub(a, b) == Rat(a.n * b.d - b.n * a.d, a.d * b.d)
RHalf(a) == Rat(a.n, 2 * a.d)
RZero == Rat(0, 1)
ROne == Rat(1, 1)
RMinusOne == Rat(-1, 1)

\* A raster pixel: mask and value.  A masked pixel carries the value zero.
Valid(v) == [m |-> TRUE, v |-> v]
Masked == [m |-> FALSE, v |-> RZero]

(***************************************************************************)
(* Strings as sequences of characters.                                     *)
(***************************************************************************)
DigitChar(k) == <<"0", "1", "2", "3", "4", "5", "6", "7", "8", "9">>[k + 1]

\* Decimal digits of k, zero padded to width w.
RECURSIVE Pad(_, _)
Pad(k, w) == IF w = 0 THEN <<>> ELSE Append(Pad(k \div 10, w - 1), DigitChar(k % 10))

\* Python '%d' % k for k >= 0.
RECURSIVE FormatD(_)
FormatD(k) == IF k < 10 THEN <<DigitChar(k)>> ELSE Append(FormatD(k \div 10), DigitChar(k % 10))

\* ee.String.slice(start, end): characters start .. end-1, zero based.
Slice(s, start, end) == SubSeq(s, start + 1, IF end > Len(s) THEN Len(s) ELSE end)

\* A timestamp as the archive prints it in SENSING_TIME: YYYY-MM-DDThh...
SensingTime(date) == Pad(date.y, 4) \o <<"-">> \o Pad(date.m, 2) \o <<"-">> \o Pad(date.d, 2) \o <<"T", "1", "6">>

(***************************************************************************)
(* cloud_mask                                                              *)
(***************************************************************************)
Pixels == (1..GridW) \X {1, 2}

\* ee.Number(2).pow(b).int()
RECURSIVE Pow2(_)
Pow2(b) == IF b = 0 THEN 1 ELSE 2 * Pow2(b - 1)

\* qa.bitwiseAnd(bitmask) for a single-bit bitmask
BitwiseAnd(q, bitmask) == ((q \div bitmask) % 2) * bitmask

cloud_shadow_bit_mask == Pow2(3)
clouds_bit_mask == Pow2(5)
water_mask == Pow2(2)

\* qa.bitwiseAnd(shadow).eq(0).And(qa.bitwiseAnd(cloud).eq(0)).And(qa.bitwiseAnd(water).eq(0))
ProvisionallyClear(q) ==
    /\ BitwiseAnd(q, cloud_shadow_bit_mask) = 0
    /\ BitwiseAnd(q, clouds_bit_mask) = 0
    /\ BitwiseAnd(q, water_mask) = 0

\* ee.Kernel.square(1): the 3x3 window around p, cut at the raster's edge
Abs(x) == IF x < 0 THEN -x ELSE x
Window(p) == {q \in Pixels : Abs(q[1] - p[1]) <= 1 /\ Abs(q[2] - p[2]) <= 1}

\* .reduceNeighborhood(ee.Reducer.anyNonZero(), ee.Kernel.square(1)): 1 where
\* any pixel of the window is non-zero
ClearSkyMask(qa) == [p \in Pixels |-> \E q \in Window(p) : ProvisionallyClear(qa[q])]

\* img.updateMask(mask).divide(10000).select([...],[...]).set({date, year})
cloud_mask(s) ==
    LET mask == ClearSkyMask(s.pixel_qa)
        Band(b) == [p \in Pixels |-> IF mask[p] THEN Valid(Rat(b, 10000)) ELSE Masked]
    IN  [red |-> Band(s.B3),
         NIR |-> Band(s.B4),
         pixel_qa |-> [p \in Pixels |->
                          IF mask[p] THEN Valid(Rat(s.pixel_qa[p], 10000)) ELSE Masked],
         mask |-> mask,
         date |-> s.SENSING_TIME,
         year |-> Slice(s.SENSING_TIME, 0, 4)]

\* lambda img: img.select('blue', 'green', 'red', 'NIR', 'SWIR1', 'SWIR2')
SelectBands(im) ==
    [red |-> im.red, NIR |-> im.NIR, mask |-> im.mask, date |-> im.date, year |-> im.year]

(***************************************************************************)
(* ndvi                                                                    *)
(***************************************************************************)
\* (a - b) / (a + b) of two valid pixels, masked where the sum is zero.
Quotient(a, b) ==
    LET num == a.v.n * b.v.d - b.v.n * a.v.d
        den == a.v.n * b.v.d + b.v.n * a.v.d
    IN  IF den = 0 THEN Masked
        ELSE IF den < 0 THEN Valid(Rat(-num, -den))
        ELSE Valid(Rat(num, den))

\* Mutant: the quotient without the masking of negative inputs.
normalizedDifference_KeepNegative(a, b) ==
    IF ~a.m \/ ~b.m THEN Masked ELSE Quotient(a, b)

\* ee.Image.normalizedDifference on one pixel: (a - b) / (a + b); the pixel is
\* masked where an input is masked, where an input is negative and where the
\* sum is zero.
normalizedDifference(a, b) ==
    IF ~a.m \/ ~b.m THEN Masked
    ELSE IF a.v.n < 0 \/ b.v.n < 0 THEN Masked
    ELSE Quotient(a, b)

\* img.normalizedDifference(['NIR', 'red']).set({'year': ..., 'variable': 'NDVI'})
ndvi(im) ==
    [nd |-> [p \in DOMAIN im.NIR |-> normalizedDifference(im.NIR[p], im.red[p])],
     year |-> im.year,
     variable |-> "NDVI"]

(***************************************************************************)
(* SpecScene: one raw scene through cloud_mask and ndvi.                   *)
(***************************************************************************)
\* pixel_qa codes of the surface reflectance product: clear, water, cloud
\* shadow, cloud
QAClear == Pow2(1) + Pow2(6)
QAContaminated == {QAClear + Pow2(2), Pow2(6) + Pow2(3), Pow2(6) + Pow2(5)}

\* Raw fixed-point reflectances, the product's negative values included
RawValues == {-2000, 0, 2000, 5000}

NoScene == [year |-> <<>>]

SceneDate == [y |-> 2005, m |-> 7, d |-> 15]

RawScenes ==
    {[pixel_qa |-> [p \in Pixels |-> IF p \in C THEN k ELSE QAClear],
      B3 |-> b3, B4 |-> b4, SENSING_TIME |-> SensingTime(SceneDate)] :
        C \in SUBSET Pixels, k \in QAContaminated, b3 \in RawValues, b4 \in RawValues}

AsmIdle ==
    /\ archive = <<>> /\ coll = <<>> /\ applied = <<>> /\ merged = <<>> /\ apc = "idle"

ExpIdle ==
    /\ lt5_le7_collection = <<>> /\ max_extent = <<>> /\ cdl_archive = <<>>
    /\ composites = <<>> /\ composites_ndvi_first = <<>>
    /\ i = 0 /\ img = NoScene /\ img_masked = NoScene /\ year = 0
    /\ task = [description |-> <<>>] /\ started = <<>> /\ pc = "idle" /\ tpc = <<>>

SceneIdle ==
    /\ raw = NoScene /\ pre = NoScene /\ nd = NoScene /\ spc = "idle"

SceneInit ==
    /\ raw \in RawScenes
    /\ pre = NoScene /\ nd = NoScene /\ spc = "raw"
    /\ AsmIdle /\ ExpIdle

\* pre = cloud_mask(raw)
DoCloudMask ==
    /\ spc = "raw"
    /\ pre' = cloud_mask(raw)
    /\ spc' = "masked"
    /\ UNCHANGED <<raw, nd>>
    /\ UNCHANGED asmVars /\ UNCHANGED expVars

\* nd = ndvi(pre)
DoNdvi ==
    /\ spc = "masked"
    /\ nd' = ndvi(pre)
    /\ spc' = "ndvi"
    /\ UNCHANGED <<raw, pre>>
    /\ UNCHANGED asmVars /\ UNCHANGED expVars

SceneNext == DoCloudMask \/ DoNdvi

SpecScene == SceneInit /\ [][SceneNext]_vars

\* The raster bits a pixel is excluded for
Contaminated(q) ==
    \/ (q \div 4) % 2 = 1
    \/ (q \div 8) % 2 = 1
    \/ (q \div 32) % 2 = 1

\* C1: once cloud_mask has run, every pixel whose pixel_qa has the water,
\* cloud shadow or cloud bit set, or one of whose neighbours in the 3x3
\* window has, is masked in the returned scene.
C1_ContaminatedOrAdjacentIsMasked ==
    spc # "raw" /\ spc # "idle" =>
        \A p \in Pixels :
            (\E q \in Window(p) : Contaminated(raw.pixel_qa[q])) =>
                /\ ~pre.mask[p]
                /\ ~pre.NIR[p].m
                /\ ~pre.red[p].m

\* C7: every pixel of the index that is defined lies in [-1, 1], and the
\* index is masked at every pixel where NIR + red is zero.
C7_IndexInRange ==
    spc = "ndvi" =>
        \A p \in Pixels :
            /\ nd.nd[p].m => /\ nd.nd[p].v.d > 0
                             /\ RLe(RMinusOne, nd.nd[p].v)
                             /\ RLe(nd.nd[p].v, ROne)
            /\ (pre.NIR[p].m /\ pre.red[p].m /\ RAdd(pre.NIR[p].v, pre.red[p].v).n = 0)
                    => ~nd.nd[p].m
            /\ (pre.NIR[p].m /\ pre.red[p].m /\ pre.NIR[p].v.n >= 0 /\ pre.red[p].v.n >= 0
                    /\ RAdd(pre.NIR[p].v, pre.red[p].v).n > 0)
                    => /\ nd.nd[p].m
                       /\ REq(nd.nd[p].v, Rat(raw.B4 - raw.B3, raw.B4 + raw.B3))

\* C7 witness: an unmasked pixel with a negative red reflectance and
\* NIR + red > 0 went through ndvi, and so did one with NIR + red = 0.
C7_Witness ==
    /\ spc = "ndvi"
    /\ \E p \in Pixels : pre.NIR[p].m /\ pre.red[p].v.n < 0
                          /\ RAdd(pre.NIR[p].v, pre.red[p].v).n > 0
                          /\ ~nd.nd[p].m

(***************************************************************************)
(* SpecAssemble: lt5_collection, le7_collection, lt5_le7_collection.       *)
(***************************************************************************)
\* combined_dates = ee.List(['1995', ..., '2015'])
combined_dates ==
    <<<<"1", "9", "9", "5">>,
     <<"1", "9", "9", "6">>,
     <<"1", "9", "9", "7">>,
     <<"1", "9", "9", "8">>,
     <<"1", "9", "9", "9">>,
     <<"2", "0", "0", "0">>,
     <<"2", "0", "0", "1">>,
     <<"2", "0", "0", "2">>,
     <<"2", "0", "0", "3">>,
     <<"2", "0", "0", "4">>,
     <<"2", "0", "0", "5">>,
     <<"2", "0", "0", "6">>,
     <<"2", "0", "0", "7">>,
     <<"2", "0", "0", "8">>,
     <<"2", "0", "0", "9">>,
     <<"2", "0", "1", "0">>,
     <<"2", "0", "1", "1">>,
     <<"2", "0", "1", "2">>,
     <<"2", "0", "1", "3">>,
     <<"2", "0", "1", "4">>,
     <<"2", "0", "1", "5">>>>

IsLeap(y) == (y % 4 = 0 /\ y % 100 # 0) \/ y % 400 = 0

DaysInMonth(y, m) ==
    IF m = 2 THEN (IF IsLeap(y) THEN 29 ELSE 28)
    ELSE IF m \in {4, 6, 9, 11} THEN 30 ELSE 31

RECURSIVE DaysBefore(_, _)
DaysBefore(y, m) == IF m = 1 THEN 0 ELSE DaysBefore(y, m - 1) + DaysInMonth(y, m - 1)

\* The 1-based day of the year of a date
DayOfYear(date) == DaysBefore(date.y, date.m) + date.d

DateLe(a, b) ==
    \/ a.y < b.y
    \/ a.y = b.y /\ a.m < b.m
    \/ a.y = b.y /\ a.m = b.m /\ a.d <= b.d

\* Mutant: a date range closed one year later.
filterDate_Through2016(c) ==
    SelectSeq(c, LAMBDA s : /\ DateLe([y |-> 1995, m |-> 1, d |-> 1], s.time_start)
                            /\ DateLe(s.time_start, [y |-> 2016, m |-> 12, d |-> 30]))

\* .filterDate('1995-01-01', '2015-12-31'): start inclusive, end exclusive
filterDate(c) ==
    SelectSeq(c, LAMBDA s : /\ DateLe([y |-> 1995, m |-> 1, d |-> 1], s.time_start)
                            /\ ~DateLe([y |-> 2015, m |-> 12, d |-> 31], s.time_start))

\* .filter(ee.Filter.dayOfYear(121, 273))
filterDayOfYear(c) ==
    SelectSeq(c, LAMBDA s : 121 <= DayOfYear(s.time_start) /\ DayOfYear(s.time_start) <= 273)

\* Mutant: a cloud cover ceiling that admits the ceiling itself.
filterCloudCover_NotGreater(c) == SelectSeq(c, LAMBDA s : s.CLOUD_COVER_LAND <= 80)

\* .filterMetadata('CLOUD_COVER_LAND', 'less_than', 80)
filterCloudCover(c) == SelectSeq(c, LAMBDA s : s.CLOUD_COVER_LAND < 80)

\* .filterBounds(detroit_msa)
filterBounds(c) == SelectSeq(c, LAMBDA s : s.intersects)

Filters == {"date", "doy", "cloud", "bounds"}

ApplyOne(f, c) ==
    CASE f = "date" -> filterDate(c)
      [] f = "doy" -> filterDayOfYear(c)
      [] f = "cloud" -> filterCloudCover(c)
      [] f = "bounds" -> filterBounds(c)

\* collection.map(f)
Map(f(_), c) == [k \in 1..Len(c) |-> f(c[k])]

\* ee.ImageCollection(a).merge(b): the images of a followed by those of b
Merge(a, b) == a \o b

\* collection.filterMetadata('year', 'equals', year)
YearScenes(c, yr) == SelectSeq(c, LAMBDA s : s.year = yr)

ClearRaster == [p \in Pixels |-> QAClear]

ArchiveScene(date, cloud, intersects) ==
    [SENSING_TIME |-> SensingTime(date), time_start |-> date,
     CLOUD_COVER_LAND |-> cloud, intersects |-> intersects,
     pixel_qa |-> ClearRaster, B3 |-> 2000, B4 |-> 5000]

\* Archive scenes: two that pass every filter and one failing each filter
ArchiveScenes ==
    {ArchiveScene([y |-> 1995, m |-> 5, d |-> 1], 10, TRUE),
     ArchiveScene([y |-> 2015, m |-> 7, d |-> 15], 79, TRUE),
     ArchiveScene([y |-> 2012, m |-> 9, d |-> 30], 10, TRUE),
     ArchiveScene([y |-> 2016, m |-> 6, d |-> 1], 10, TRUE),
     ArchiveScene([y |-> 2005, m |-> 9, d |-> 30], 80, TRUE),
     ArchiveScene([y |-> 2005, m |-> 9, d |-> 30], 10, FALSE)}

RECURSIVE SeqsOfLen(_, _)
SeqsOfLen(S, n) ==
    IF n = 0 THEN {<<>>}
    ELSE {Append(q, x) : q \in SeqsOfLen(S, n - 1), x \in S}

SeqsUpTo(S, n) == UNION {SeqsOfLen(S, k) : k \in 0..n}

Platforms == {"LT05", "LE07"}

AsmInit ==
    /\ \E a \in SeqsUpTo(ArchiveScenes, MaxArchive) :
        \E b \in SeqsUpTo(ArchiveScenes, MaxArchive - Len(a)) :
            archive = [P \in Platforms |-> IF P = "LT05" THEN a ELSE b]
    /\ coll = archive
    /\ applied = [P \in Platforms |-> <<>>]
    /\ merged = <<>>
    /\ apc = "LT05"
    /\ SceneIdle /\ ExpIdle

InSeq(x, q) == \E k \in 1..Len(q) : q[k] = x

\* One filter call on the platform's collection
ApplyFilter(P, f) ==
    /\ apc = P
    /\ ~InSeq(f, applied[P])
    /\ coll' = [coll EXCEPT ![P] = ApplyOne(f, coll[P])]
    /\ applied' = [applied EXCEPT ![P] = Append(applied[P], f)]
    /\ UNCHANGED <<archive, merged, apc>>
    /\ UNCHANGED sceneVars /\ UNCHANGED expVars

Preprocess(s) == SelectBands(cloud_mask(s))

\* .map(cloud_mask).map(lambda img: img.select(...)) closes the platform's
\* collection
MapCloudMask(P) ==
    /\ apc = P
    /\ Len(applied[P]) = 4
    /\ coll' = [coll EXCEPT ![P] = Map(Preprocess, coll[P])]
    /\ apc' = IF P = "LT05" THEN "LE07" ELSE "merge"
    /\ UNCHANGED <<archive, applied, merged>>
    /\ UNCHANGED sceneVars /\ UNCHANGED expVars

\* lt5_le7_collection = ee.ImageCollection(lt5_collection).merge(le7_collection)
DoMerge ==
    /\ apc = "merge"
    /\ merged' = Merge(coll["LT05"], coll["LE07"])
    /\ apc' = "merged"
    /\ UNCHANGED <<archive, coll, applied>>
    /\ UNCHANGED sceneVars /\ UNCHANGED expVars

AsmNext ==
    \/ \E P \in Platforms, f \in Filters : ApplyFilter(P, f)
    \/ \E P \in Platforms : MapCloudMask(P)
    \/ DoMerge

SpecAssemble == AsmInit /\ [][AsmNext]_vars

\* The four predicates of the Collection Assembler, on an archive scene
Qualifies(s) ==
    /\ s.intersects
    /\ 19950101 <= s.time_start.y * 10000 + s.time_start.m * 100 + s.time_start.d
    /\ s.time_start.y * 10000 + s.time_start.m * 100 + s.time_start.d < 20151231
    /\ DayOfYear(s.time_start) \in 121..273
    /\ s.CLOUD_COVER_LAND < 80

\* C8: whatever the order in which the four filters were applied to a
\* platform's archive, the collection is the archive's scenes that satisfy
\* all four predicates, in archive order.
C8_FiltersCommute ==
    \A P \in Platforms :
        (apc = P /\ Len(applied[P]) = 4) =>
            coll[P] = SelectSeq(archive[P], Qualifies)

\* C8 witness: the four filters were applied in the order the spec states
\* (bounds, date, day of year, cloud cover), which is not the code's, to an
\* archive of which they kept one scene and dropped another.
C8_Witness ==
    /\ apc = "LT05"
    /\ applied["LT05"] = <<"bounds", "date", "doy", "cloud">>
    /\ Len(coll["LT05"]) = 1
    /\ Len(archive["LT05"]) = 2

\* C10: every scene of the merged collection carries a year label that is
\* exactly one entry of combined_dates, so it is selected for exactly one
\* annual composite, the one of its own year, and the merge keeps every
\* scene of both platforms.
C10_CompositesPartition ==
    apc = "merged" =>
        /\ Len(merged) = Len(coll["LT05"]) + Len(coll["LE07"])
        /\ \A k \in 1..Len(merged) :
            /\ Cardinality({j \in 1..Len(combined_dates) :
                                InSeq(merged[k], YearScenes(merged, combined_dates[j]))}) = 1
            /\ \E j \in 1..Len(combined_dates) : merged[k].year = combined_dates[j]
            /\ merged[k].year = SubSeq(merged[k].date, 1, 4)

\* C10 witness: the merge kept the same scene from both platforms.
C10_Witness ==
    /\ apc = "merged"
    /\ Len(coll["LT05"]) = 1
    /\ Len(coll["LE07"]) = 1
    /\ merged[1] = merged[2]

(***************************************************************************)
(* Region and static masks.                                                *)
(***************************************************************************)
\* detroit_msa: the raster's first column lies inside the study area, the
\* second inside its bounding box only, the rest outside the bounding box.
InMSA(p) == p[1] = 1
InBounds(p) == p[1] <= 2

\* Mutant: a water raster that is 1 on water.
water_OneOnWater == [p \in Pixels |-> Valid(IF max_extent[p] # 0 THEN 1 ELSE 0)]

\* water = ee.Image(1).where(ee.Image('JRC/GSW1_0/GlobalSurfaceWater')
\*     .select('max_extent'), ee.Image(0)): 0 where max_extent is non-zero
water == [p \in Pixels |-> Valid(IF max_extent[p] # 0 THEN 0 ELSE 1)]

\* cdl: the CDL images of 2013, 2014 and 2015, each reduced to
\* cultivated < 2, reduced with allNonZero and clipped to the bounding box
cdl ==
    LET layers == SelectSeq(cdl_archive, LAMBDA c : c.index \in {"2013", "2014", "2015"})
    IN  [p \in Pixels |->
            IF Len(layers) = 0 \/ ~InBounds(p) THEN [m |-> FALSE, v |-> 0]
            ELSE Valid(IF \A k \in 1..Len(layers) : layers[k].cultivated[p] < 2
                       THEN 1 ELSE 0)]

\* raster.updateMask(mask): valid where the raster is valid and the mask is
\* valid and non-zero
updateMaskRaster(r, mask) ==
    [p \in Pixels |-> IF r[p].m /\ mask[p].m /\ mask[p].v # 0 THEN r[p] ELSE Masked]

\* img.clip(detroit_msa) on one raster
clipRaster(r) == [p \in Pixels |-> IF InMSA(p) THEN r[p] ELSE Masked]

(***************************************************************************)
(* Annual composites.                                                      *)
(***************************************************************************)
AllMasked == [p \in Pixels |-> Masked]

\* The valid values of the collection's rasters at pixel p, as a sequence
RECURSIVE ValuesAt(_, _, _)
ValuesAt(c, band, p) ==
    IF Len(c) = 0 THEN <<>>
    ELSE LET rest == ValuesAt(Tail(c), band, p)
         IN  IF Head(c)[band][p].m THEN <<Head(c)[band][p].v>> \o rest ELSE rest

RECURSIVE Insert(_, _)
Insert(x, q) ==
    IF Len(q) = 0 THEN <<x>>
    ELSE IF RLe(x, Head(q)) THEN <<x>> \o q
    ELSE <<Head(q)>> \o Insert(x, Tail(q))

RECURSIVE Sorted(_)
Sorted(q) == IF Len(q) = 0 THEN <<>> ELSE Insert(Head(q), Sorted(Tail(q)))

\* The median of a non-empty sequence of values: the middle one, or the
\* mean of the two middle ones
MedianOf(q) ==
    LET t == Sorted(q)
        n == Len(t)
    IN  IF n % 2 = 1 THEN t[(n + 1) \div 2]
        ELSE RHalf(RAdd(t[n \div 2], t[n \div 2 + 1]))

MaxOf(q) == Sorted(q)[Len(q)]

MinOf(q) == Sorted(q)[1]

\* collection.median(): per band and pixel, over the valid values; an
\* empty collection gives an image without bands
median(c) ==
    LET R(band) == [p \in Pixels |->
                       IF Len(ValuesAt(c, band, p)) = 0 THEN Masked
                       ELSE Valid(MedianOf(ValuesAt(c, band, p)))]
    IN  [bands |-> Len(c) > 0, red |-> R("red"), NIR |-> R("NIR")]

\* Mutant: the per-pixel minimum.
max_AsMin(c) ==
    [bands |-> Len(c) > 0,
     nd |-> [p \in Pixels |->
                IF Len(ValuesAt(c, "nd", p)) = 0 THEN Masked
                ELSE Valid(MinOf(ValuesAt(c, "nd", p)))]]

\* collection.max(): per pixel, over the valid values
max(c) ==
    [bands |-> Len(c) > 0,
     nd |-> [p \in Pixels |->
                IF Len(ValuesAt(c, "nd", p)) = 0 THEN Masked
                ELSE Valid(MaxOf(ValuesAt(c, "nd", p)))]]

annual_composite_median(collection, yr) ==
    LET m == median(YearScenes(collection, yr))
    IN  [bands |-> m.bands, red |-> m.red, NIR |-> m.NIR, year |-> yr]

\* Mutant: the composite is returned without its year property.
annual_composite_maximum_ndvi_NoYear(collection, yr) ==
    LET m == max(Map(ndvi, YearScenes(collection, yr)))
    IN  [bands |-> m.bands, nd |-> m.nd, year |-> <<>>]

annual_composite_maximum_ndvi(collection, yr) ==
    LET m == max(Map(ndvi, YearScenes(collection, yr)))
    IN  [bands |-> m.bands, nd |-> m.nd, year |-> yr]

\* ndvi of a median composite; normalizedDifference finds no band to read
\* in an image without bands
ndviOfComposite(im) ==
    IF im.bands THEN [bands |-> TRUE, nd |-> ndvi(im).nd, year |-> im.year, variable |-> "NDVI"]
    ELSE [bands |-> FALSE, nd |-> AllMasked, year |-> im.year, variable |-> "NDVI"]

(***************************************************************************)
(* Spec: the workspace cell: composites, then the export loop.             *)
(***************************************************************************)
\* Raw scenes of the two seasons 1995 and 2015: clear or wholly clouded
SceneInputs ==
    {[pixel_qa |-> [p \in Pixels |-> q], B3 |-> b[1], B4 |-> b[2],
      SENSING_TIME |-> SensingTime(dt)] :
        q \in {QAClear, Pow2(6) + Pow2(5)},
        b \in {<<3500, 6500>>, <<1500, 8500>>, <<-500, 3000>>},
        dt \in {[y |-> 1995, m |-> 6, d |-> 1], [y |-> 2015, m |-> 8, d |-> 1]}}

CdlImage(index, cultivated) == [index |-> index, cultivated |-> cultivated]

Uniform(v) == [p \in Pixels |-> v]

\* Rasters that differ between the raster's two rows
ByRow(a, b) == [p \in Pixels |-> IF p[2] = 1 THEN a ELSE b]

\* No surface water, never cultivated
PlainStatics ==
    /\ max_extent = Uniform(0)
    /\ cdl_archive = <<CdlImage("2012", Uniform(2)), CdlImage("2013", Uniform(1)),
                       CdlImage("2014", Uniform(1)), CdlImage("2015", Uniform(1))>>

VariedStatics ==
    /\ \E a \in {0, 1}, b \in {0, 1} : max_extent = ByRow(a, b)
    /\ \E c13 \in {1, 2}, c14 \in {1, 2}, a \in {1, 2}, b \in {1, 2} :
        cdl_archive = <<CdlImage("2012", Uniform(2)), CdlImage("2013", Uniform(c13)),
                        CdlImage("2014", Uniform(c14)), CdlImage("2015", ByRow(a, b))>>

FixedCollection ==
    Map(Preprocess,
        <<[pixel_qa |-> Uniform(QAClear), B3 |-> 3500, B4 |-> 6500,
           SENSING_TIME |-> SensingTime([y |-> 1995, m |-> 6, d |-> 1])],
          [pixel_qa |-> Uniform(QAClear), B3 |-> 1500, B4 |-> 8500,
           SENSING_TIME |-> SensingTime([y |-> 1995, m |-> 7, d |-> 3])]>>)

NoTask == [description |-> <<>>]

LoopIdle ==
    /\ i = 0 /\ img = NoScene /\ img_masked = NoScene /\ year = 0
    /\ task = NoTask /\ started = <<>>

Init ==
    /\ \/ /\ \E r \in SeqsUpTo(SceneInputs, MaxScenes) :
                lt5_le7_collection = Map(Preprocess, r)
          /\ PlainStatics
       \/ /\ lt5_le7_collection = FixedCollection
          /\ VariedStatics
    /\ composites = <<>>
    /\ composites_ndvi_first = <<>>
    /\ LoopIdle
    /\ pc = "composites"
    /\ tpc = <<>>
    /\ SceneIdle /\ AsmIdle

staticVars == <<lt5_le7_collection, max_extent, cdl_archive>>
loopVars == <<i, img, img_masked, year, task, started>>

\* combined_dates.map(lambda year: annual_composite_...(lt5_le7_collection, year))
BuildComposites ==
    /\ pc = "composites"
    /\ composites' = [k \in 1..Len(combined_dates) |->
                          annual_composite_median(lt5_le7_collection, combined_dates[k])]
    /\ composites_ndvi_first' =
            [k \in 1..Len(combined_dates) |->
                annual_composite_maximum_ndvi(lt5_le7_collection, combined_dates[k])]
    /\ pc' = "clip"
    /\ UNCHANGED staticVars /\ UNCHANGED loopVars /\ UNCHANGED tpc
    /\ UNCHANGED sceneVars /\ UNCHANGED asmVars

clipMedian(im) ==
    [bands |-> im.bands, red |-> clipRaster(im.red), NIR |-> clipRaster(im.NIR),
     year |-> im.year]

clipNdvi(im) == [bands |-> im.bands, nd |-> clipRaster(im.nd), year |-> im.year]

clipThenNdvi(im) == ndviOfComposite(clipMedian(im))

\* ee.ImageCollection(...).map(lambda img: img.clip(detroit_msa)) and,
\* for the median composites, .map(ndvi)
ClipComposites ==
    /\ pc = "clip"
    /\ composites' = Map(clipThenNdvi, composites)
    /\ composites_ndvi_first' = Map(clipNdvi, composites_ndvi_first)
    /\ pc' = "loop"
    /\ UNCHANGED staticVars /\ UNCHANGED loopVars /\ UNCHANGED tpc
    /\ UNCHANGED sceneVars /\ UNCHANGED asmVars

\* ee.ImageCollection(c).size().getInfo()
Size(c) == Len(c)

\* Mutant: the list is read one position further.
toListGet_OffByOne(c, k) == SubSeq(c, ((k + 1) % Len(c)) + 1, ((k + 1) % Len(c)) + 1)[1]

\* ee.Image(ee.ImageCollection(c).toList(1, k).get(0))
toListGet(c, k) == SubSeq(c, k + 1, k + 1)[1]

\* img.updateMask(water).updateMask(cdl)
MaskOut(im) ==
    [bands |-> im.bands,
     nd |-> updateMaskRaster(updateMaskRaster(im.nd, water), cdl),
     year |-> im.year]

\* Mutant: a range that ends one year early.
RangeList_Short == [k \in 1..(2015 - 1995) |-> 1995 + k - 1]

\* list(range(1995, 2016))
RangeList == [k \in 1..(2016 - 1995) |-> 1995 + k - 1]

\* Mutant: the year is counted from the jobs started so far, a value the
\* iterations share.
RangeGet_FromStarted(k) == RangeList[Len(started) + 1]

\* list(range(1995, 2016))[k]; an index past the end raises IndexError
RangeGet(k) == RangeList[k + 1]

\* ee.batch.Export.image.toDrive(image, description, region, folder, scale, crs)
ExportToDrive(image, yr) ==
    [image |-> image,
     description |-> <<"LT5-LE7_SR_Maximum_NDVI_">> \o FormatD(yr),
     folder |-> "EarthEngine", scale |-> 30, crs |-> "EPSG:32617"]

\* for i in xrange(0, size): the loop's test
LoopTest ==
    /\ pc = "loop"
    /\ pc' = IF i < Size(composites_ndvi_first) THEN "fetch" ELSE "done"
    /\ UNCHANGED staticVars /\ UNCHANGED loopVars /\ UNCHANGED tpc
    /\ UNCHANGED <<composites, composites_ndvi_first>>
    /\ UNCHANGED sceneVars /\ UNCHANGED asmVars

Fetch ==
    /\ pc = "fetch"
    /\ img' = toListGet(composites_ndvi_first, i)
    /\ pc' = "mask"
    /\ UNCHANGED staticVars /\ UNCHANGED <<i, img_masked, year, task, started, tpc>>
    /\ UNCHANGED <<composites, composites_ndvi_first>>
    /\ UNCHANGED sceneVars /\ UNCHANGED asmVars

MaskStep ==
    /\ pc = "mask"
    /\ img_masked' = MaskOut(img)
    /\ pc' = "year"
    /\ UNCHANGED staticVars /\ UNCHANGED <<i, img, year, task, started, tpc>>
    /\ UNCHANGED <<composites, composites_ndvi_first>>
    /\ UNCHANGED sceneVars /\ UNCHANGED asmVars

\* year = list(range(1995, 2016))[i]; the cell stops on an IndexError
YearStep ==
    /\ pc = "year"
    /\ IF i + 1 \in DOMAIN RangeList
       THEN year' = RangeGet(i) /\ pc' = "build"
       ELSE year' = year /\ pc' = "IndexError"
    /\ UNCHANGED staticVars /\ UNCHANGED <<i, img, img_masked, task, started, tpc>>
    /\ UNCHANGED <<composites, composites_ndvi_first>>
    /\ UNCHANGED sceneVars /\ UNCHANGED asmVars

Build ==
    /\ pc = "build"
    /\ task' = ExportToDrive(img_masked, year)
    /\ pc' = "start"
    /\ UNCHANGED staticVars /\ UNCHANGED <<i, img, img_masked, year, started, tpc>>
    /\ UNCHANGED <<composites, composites_ndvi_first>>
    /\ UNCHANGED sceneVars /\ UNCHANGED asmVars

\* task.start(), then the next value of i
Start ==
    /\ pc = "start"
    /\ started' = Append(started, task)
    /\ i' = i + 1
    /\ pc' = "loop"
    /\ UNCHANGED staticVars /\ UNCHANGED <<img, img_masked, year, task, tpc>>
    /\ UNCHANGED <<composites, composites_ndvi_first>>
    /\ UNCHANGED sceneVars /\ UNCHANGED asmVars

Next ==
    \/ BuildComposites
    \/ ClipComposites
    \/ LoopTest
    \/ Fetch
    \/ MaskStep
    \/ YearStep
    \/ Build
    \/ Start

Spec == Init /\ [][Next]_vars

\* The notebook's cell runs to its end: every step is taken eventually.
FairSpec == Spec /\ WF_vars(Next)

DescriptionPrefix == <<"LT5-LE7_SR_Maximum_NDVI_">>

\* C2: every job started carries the composite whose year tag is the year
\* in the job's description: the k-th job's image is the k-th composite,
\* masked, its tag is the k-th entry of combined_dates, and the description
\* ends in that year.
C2_JobImageMatchesDescription ==
    /\ pc \in {"mask", "year", "build", "start"} =>
            /\ img = composites_ndvi_first[i + 1]
            /\ img.year = combined_dates[i + 1]
            /\ img.year = FormatD(1995 + i)
    /\ \A k \in 1..Len(started) :
        /\ started[k].description = DescriptionPrefix \o started[k].image.year
        /\ started[k].image.year = combined_dates[k]
        /\ composites_ndvi_first[k].year = combined_dates[k]
        /\ started[k].image.bands = composites_ndvi_first[k].bands
        /\ \A p \in Pixels :
            started[k].image.nd[p].m =>
                started[k].image.nd[p] = composites_ndvi_first[k].nd[p]

\* C2 witness: all jobs were started and the 2015 job carries a defined
\* pixel.
C2_Witness ==
    /\ pc = "done"
    /\ Len(started) = Len(combined_dates)
    /\ \E p \in Pixels : started[Len(started)].image.nd[p].m

JobsOf(y) == {k \in 1..Len(started) : started[k].description = DescriptionPrefix \o FormatD(y)}

OneJobPerYear ==
    /\ Len(started) = 21
    /\ \A y \in 1995..2015 : Cardinality(JobsOf(y)) = 1
    /\ \A k \in 1..Len(started) : \E y \in 1995..2015 : k \in JobsOf(y)

\* C3: the export loop terminates, and when it has finished exactly one
\* job has been started for each year of 1995..2015 and none for any other
\* year.
C3_LoopTerminatesOneJobPerYear ==
    /\ <>(pc = "done")
    /\ [](pc = "done" => OneJobPerYear)

\* C3 witness: the loop has finished over a collection with two scenes in
\* one year and none in the others.
C3_Witness ==
    /\ pc = "done"
    /\ OneJobPerYear
    /\ Len(lt5_le7_collection) = 2
    /\ lt5_le7_collection[1].year = lt5_le7_collection[2].year

CdlLayer(index) == CHOOSE c \in {cdl_archive[k] : k \in 1..Len(cdl_archive)} : c.index = index

NeverCultivated(p) ==
    /\ CdlLayer("2013").cultivated[p] < 2
    /\ CdlLayer("2014").cultivated[p] < 2
    /\ CdlLayer("2015").cultivated[p] < 2

\* C4: in every exported image a pixel is masked wherever there is surface
\* water or the non-cultivated mask is 0; the non-cultivated mask is 1 only
\* where the cultivated value is below 2 in the 2013, 2014 and 2015 layers;
\* a defined pixel of an export is the composite's, not water and never
\* cultivated, and this is so for every year's job.
C4_StaticMasksApplied ==
    \A k \in 1..Len(started) : \A p \in Pixels :
        /\ (cdl[p].m /\ cdl[p].v = 1) => NeverCultivated(p)
        /\ (max_extent[p] # 0 \/ ~cdl[p].m \/ cdl[p].v = 0) => ~started[k].image.nd[p].m
        /\ started[k].image.nd[p].m <=>
                /\ composites_ndvi_first[k].nd[p].m
                /\ max_extent[p] = 0
                /\ NeverCultivated(p)
        /\ started[k].image.nd[p].m =>
                started[k].image.nd[p].v = composites_ndvi_first[k].nd[p].v

\* C4 witness: a job was started whose composite is defined at two pixels,
\* one of which the static masks removed.
C4_Witness ==
    \E k \in 1..Len(started) : \E p \in Pixels, q \in Pixels :
        /\ composites_ndvi_first[k].nd[p].m
        /\ composites_ndvi_first[k].nd[q].m
        /\ started[k].image.nd[p].m
        /\ ~started[k].image.nd[q].m

\* The per-scene index values at pixel p over the scenes labelled yr
YearIndexValues(yr, p) ==
    {ndvi(lt5_le7_collection[k]).nd[p].v :
        k \in {j \in 1..Len(lt5_le7_collection) :
                  /\ lt5_le7_collection[j].year = yr
                  /\ ndvi(lt5_le7_collection[j]).nd[p].m}}

\* C5: the maximum NDVI composite of a year is, at every pixel, the largest
\* of the index values of that year's scenes that are defined there, and is
\* masked where none is.
C5_MaximumComposite ==
    pc = "clip" =>
        \A j \in 1..Len(combined_dates) : \A p \in Pixels :
            LET r == composites_ndvi_first[j].nd[p]
                vals == YearIndexValues(combined_dates[j], p)
            IN  /\ r.m <=> vals # {}
                /\ r.m => /\ r.v \in vals
                          /\ \A v \in vals : RLe(v, r.v)

\* C5 witness: two scenes of 1995 with index 0.3 and 0.7 at a pixel gave a
\* composite of 0.7 there.
C5_Witness ==
    /\ pc = "clip"
    /\ \E p \in Pixels :
        /\ YearIndexValues(combined_dates[1], p) = {Rat(3, 10), Rat(7, 10)}
        /\ composites_ndvi_first[1].nd[p] = Valid(Rat(7, 10))

NoSceneIn(yr) == \A k \in 1..Len(lt5_le7_collection) : lt5_le7_collection[k].year # yr

\* C6: the median and the maximum NDVI composite of a year without scenes
\* are images with every pixel masked that carry the year's tag.
C6_EmptyYearComposite ==
    pc = "clip" =>
        \A j \in 1..Len(combined_dates) :
            NoSceneIn(combined_dates[j]) =>
                /\ composites[j].year = combined_dates[j]
                /\ composites_ndvi_first[j].year = combined_dates[j]
                /\ \A p \in Pixels :
                    /\ ~composites[j].red[p].m
                    /\ ~composites[j].NIR[p].m
                    /\ ~composites_ndvi_first[j].nd[p].m

\* C6 witness: composites were built from a collection with scenes in 1995
\* and none in 1996.
C6_Witness ==
    /\ pc = "clip"
    /\ ~NoSceneIn(combined_dates[1])
    /\ NoSceneIn(combined_dates[2])
    /\ ~composites_ndvi_first[2].bands

(***************************************************************************)
(* ConcSpec: iterations of the export loop issued concurrently, their      *)
(* steps interleaved.  Each iteration is one call of the loop body with    *)
(* its own value of i and its own img, img_masked, year and task; the      *)
(* composites, the static masks and the batch system are common to all.    *)
(***************************************************************************)
ConcInit ==
    /\ lt5_le7_collection = FixedCollection
    /\ PlainStatics
    /\ composites = Map(clipThenNdvi,
                        [k \in 1..Len(combined_dates) |->
                            annual_composite_median(lt5_le7_collection, combined_dates[k])])
    /\ composites_ndvi_first =
            Map(clipNdvi,
                [k \in 1..Len(combined_dates) |->
                    annual_composite_maximum_ndvi(lt5_le7_collection, combined_dates[k])])
    /\ \E a \in 0..(Len(combined_dates) - ConcIterations) :
            tpc = [k \in a..(a + ConcIterations - 1) |-> "fetch"]
    /\ i = 0
    /\ img = [k \in DOMAIN tpc |-> NoScene]
    /\ img_masked = [k \in DOMAIN tpc |-> NoScene]
    /\ year = [k \in DOMAIN tpc |-> 0]
    /\ task = [k \in DOMAIN tpc |-> NoTask]
    /\ started = <<>>
    /\ pc = "concurrent"
    /\ SceneIdle /\ AsmIdle

concFrame ==
    /\ UNCHANGED staticVars /\ UNCHANGED <<composites, composites_ndvi_first, i, pc>>
    /\ UNCHANGED sceneVars /\ UNCHANGED asmVars

CFetch(k) ==
    /\ tpc[k] = "fetch"
    /\ img' = [img EXCEPT ![k] = toListGet(composites_ndvi_first, k)]
    /\ tpc' = [tpc EXCEPT ![k] = "mask"]
    /\ UNCHANGED <<img_masked, year, task, started>>
    /\ concFrame

CMask(k) ==
    /\ tpc[k] = "mask"
    /\ img_masked' = [img_masked EXCEPT ![k] = MaskOut(img[k])]
    /\ tpc' = [tpc EXCEPT ![k] = "year"]
    /\ UNCHANGED <<img, year, task, started>>
    /\ concFrame

CYear(k) ==
    /\ tpc[k] = "year"
    /\ year' = [year EXCEPT ![k] = RangeGet(k)]
    /\ tpc' = [tpc EXCEPT ![k] = "build"]
    /\ UNCHANGED <<img, img_masked, task, started>>
    /\ concFrame

CBuild(k) ==
    /\ tpc[k] = "build"
    /\ task' = [task EXCEPT ![k] = ExportToDrive(img_masked[k], year[k])]
    /\ tpc' = [tpc EXCEPT ![k] = "start"]
    /\ UNCHANGED <<img, img_masked, year, started>>
    /\ concFrame

CStart(k) ==
    /\ tpc[k] = "start"
    /\ started' = Append(started, task[k])
    /\ tpc' = [tpc EXCEPT ![k] = "done"]
    /\ UNCHANGED <<img, img_masked, year, task>>
    /\ concFrame

ConcNext ==
    \/ \E k \in DOMAIN tpc : CFetch(k)
    \/ \E k \in DOMAIN tpc : CMask(k)
    \/ \E k \in DOMAIN tpc : CYear(k)
    \/ \E k \in DOMAIN tpc : CBuild(k)
    \/ \E k \in DOMAIN tpc : CStart(k)

ConcSpec == ConcInit /\ [][ConcNext]_vars

AllDone == pc = "concurrent" /\ \A k \in DOMAIN tpc : tpc[k] = "done"

StartedSet == {started[k] : k \in 1..Len(started)}

\* The job that the loop, run sequentially, starts in iteration k
SequentialJob(k) ==
    [image |-> [bands |-> composites_ndvi_first[k + 1].bands,
                nd |-> updateMaskRaster(updateMaskRaster(composites_ndvi_first[k + 1].nd, water), cdl),
                year |-> combined_dates[k + 1]],
     description |-> DescriptionPrefix \o FormatD(1995 + k),
     folder |-> "EarthEngine", scale |-> 30, crs |-> "EPSG:32617"]

====
